---- MODULE Spec2Model ----
(***************************************************************************)
(* A model of the style-function runtime of mapbox-gl-js:                  *)
(*   src/style-spec/function/evaluation_context.js  (coalesce, get, has,   *)
(*       typeOf, as, array, evaluateCurve, findStopLessThanOrEqualTo)      *)
(*   src/style-spec/function/index.js  (createFunction,                    *)
(*       isFunctionDefinition, getExpectedType)                            *)
(* One operation is called from the idle state; loops (coalesce's while,   *)
(* the binary search's while) advance one iteration per step.              *)
(* Array indices held in variables are JavaScript's (from 0); sequences    *)
(* are TLA+'s (from 1), so JavaScript's a[i] is a[i + 1] here.             *)
(***************************************************************************)
EXTENDS Integers, Sequences, FiniteSets, TLC

\* ------------------------------------------------------------- bounds
\* Longest thunk list handed to coalesce.
MaxThunks == 3
\* Most stops of a curve handed to evaluateCurve / the binary search.
MaxStops == 4
\* Stop inputs are drawn from 0..MaxStopInput.
MaxStopInput == 3
\* Most (key, error) pairs the compiler reports.
MaxErrors == 2
\* Most zoom stops of a compiled curve node.
MaxZoomStops == 2

\* Loop iterations of the binary search that are followed before the model
\* stops following a search that makes no progress.
MaxIters == MaxStops + 2

VARIABLES
    pc,            \* "idle" | "coalesce" | "search" | "done"
    op,            \* the operation that was called
    thunks,        \* coalesce: the thunks as passed, each by its outcome
    queue,         \* coalesce: the thunks not yet shifted off (id, outcome)
    calls,         \* coalesce: ids of the thunks invoked, in order
    coResult,      \* coalesce: what the call produced
    input,         \* evaluateCurve / search: the input value (tagged)
    stopInputs,    \* evaluateCurve / search: the stop inputs
    interpolation, \* evaluateCurve: [name, base]
    resultType,    \* evaluateCurve: "number" | "color" | "array"
    stopOutputs,   \* evaluateCurve: what each output thunk returns
    lowerIndex, upperIndex, currentIndex,  \* search: the loop's locals
    iters,         \* search: loop iterations started
    index,         \* search: the index returned (-1: none yet)
    curveResult,   \* evaluateCurve: what the call produced
    cf,            \* createFunction: the call's inputs and outcome
    gr             \* get: the call's inputs and outcome

vars == <<pc, op, thunks, queue, calls, coResult, input, stopInputs,
          interpolation, resultType, stopOutputs, lowerIndex, upperIndex,
          currentIndex, iters, index, curveResult, cf, gr>>

coalesceVars == <<thunks, queue, calls, coResult>>
curveVars == <<input, stopInputs, interpolation, resultType, stopOutputs,
               lowerIndex, upperIndex, currentIndex, iters, index, curveResult>>

None == [kind |-> "none"]

\* ------------------------------------------------------------ coalesce
\* What a thunk does when invoked: returns null, returns a value, or throws.
ThunkOutcomes == {"Null", "Fail", "v1", "v2"}

RECURSIVE SeqsUpTo(_, _)
SeqsUpTo(S, n) ==
    IF n = 0 THEN {<<>>}
    ELSE LET shorter == SeqsUpTo(S, n - 1)
         IN  shorter \cup {Append(s, x) : s \in {t \in shorter : Len(t) = n - 1}, x \in S}

CallCoalesce ==
    /\ pc = "idle"
    /\ \E ths \in SeqsUpTo(ThunkOutcomes, MaxThunks) :
          /\ thunks' = ths
          /\ queue' = [k \in 1..Len(ths) |-> [id |-> k, out |-> ths[k]]]
    /\ calls' = <<>>
    /\ coResult' = None
    /\ pc' = "coalesce"
    /\ op' = "coalesce"
    /\ UNCHANGED <<curveVars, cf, gr>>

\* thunks.shift(): the thunk taken and the queue left.
ShiftLast(q) == [taken |-> q[Len(q)], rest |-> SubSeq(q, 1, Len(q) - 1)]
Shift(q) == [taken |-> Head(q), rest |-> Tail(q)]

\* `if (result !== null) return result;`
ReturnsResult(out) == out # "Null"

\* `catch (e) { if (thunks.length === 0) throw e; }`
RethrowsAlways(rest) == TRUE
Rethrows(rest) == Len(rest) = 0

\* One iteration of coalesce's `while (true)`.
CoalesceStep ==
    /\ pc = "coalesce"
    /\ IF Len(queue) = 0
       THEN /\ coResult' = [kind |-> "return", val |-> "Null", by |-> 0]
            /\ pc' = "done"
            /\ UNCHANGED <<queue, calls>>
       ELSE LET s == Shift(queue)
                t == s.taken
            IN  /\ queue' = s.rest
                /\ calls' = Append(calls, t.id)
                /\ IF t.out = "Fail"
                   THEN IF Rethrows(s.rest)
                        THEN /\ coResult' = [kind |-> "throw", val |-> "Fail", by |-> t.id]
                             /\ pc' = "done"
                        ELSE UNCHANGED <<coResult, pc>>
                   ELSE IF ReturnsResult(t.out)
                        THEN /\ coResult' = [kind |-> "return", val |-> t.out, by |-> t.id]
                             /\ pc' = "done"
                        ELSE UNCHANGED <<coResult, pc>>
    /\ UNCHANGED <<op, thunks, curveVars, cf, gr>>

\* ------------------------------------------------------- tagged numbers
\* A JavaScript value where a number is expected: a finite number, NaN,
\* undefined (an array read past its end) or a string.
Num(v) == <<"num", v>>
NaN == <<"nan", 0>>
Undefined == <<"undefined", 0>>
AString == <<"string", 0>>

\* JavaScript's comparisons: any comparison with NaN (or with undefined,
\* which converts to NaN) is false.
JsLt(a, b) == a[1] = "num" /\ b[1] = "num" /\ a[2] < b[2]
JsGt(a, b) == JsLt(b, a)
JsLe(a, b) == a[1] = "num" /\ b[1] = "num" /\ a[2] <= b[2]
JsGe(a, b) == JsLe(b, a)
JsStrictEq(a, b) == a[1] = "num" /\ b[1] = "num" /\ a[2] = b[2]

\* stops[i], i from 0; undefined past the end.
StopAt(stops, i) == IF i >= 0 /\ i < Len(stops) THEN Num(stops[i + 1]) ELSE Undefined

\* ------------------------------------------------------------ rationals
\* Results of interpolation are exact fractions in lowest terms; 0/0 is NaN.
RECURSIVE GCD(_, _)
GCD(a, b) == IF b = 0 THEN a ELSE GCD(b, a % b)
Abs(x) == IF x < 0 THEN -x ELSE x
NaNRat == [num |-> 0, den |-> 0]
Rat(n, d) ==
    IF d = 0 THEN NaNRat
    ELSE LET g == GCD(Abs(n), Abs(d))
             sgn == IF d < 0 THEN -1 ELSE 1
         IN  [num |-> sgn * (n \div g), den |-> sgn * (d \div g)]
R(n) == [num |-> n, den |-> 1]

RECURSIVE Pow(_, _)
Pow(b, e) == IF e = 0 THEN 1 ELSE b * Pow(b, e - 1)

\* interpolationFactor(input, base, lower, upper)
InterpolationFactor(inp, base, lower, upper) ==
    IF base = 1
    THEN Rat(inp - lower, upper - lower)
    ELSE Rat(Pow(base, inp - lower) - 1, Pow(base, upper - lower) - 1)

\* interpolate.number(a, b, t) = a * (1 - t) + b * t
InterpolateNumber(a, b, t) ==
    IF t.den = 0 \/ a.den = 0 \/ b.den = 0 THEN NaNRat
    ELSE Rat(a.num * b.den * (t.den - t.num) + b.num * a.den * t.num,
             a.den * b.den * t.den)

\* interpolate.array(from, to, t): item by item.
InterpolateArray(from, to, t) ==
    [k \in 1..Len(from) |-> InterpolateNumber(from[k], to[k], t)]

\* interpolate.color(from, to, t): channel by channel.
InterpolateColor(from, to, t) == InterpolateArray(from, to, t)

\* ------------------------------------------------------------- typeOf, as
\* typeOf of a value where a number is expected.
TypeOf(x) ==
    CASE x[1] \in {"num", "nan"} -> "Number"
      [] x[1] = "string" -> "String"
      [] OTHER -> "Undefined"

\* as(value, expectedType): does the assertion pass?
AsPasses(x, expectedType) == TypeOf(x) = expectedType

\* array(arrayType, items): the given element type, or the inferred one
\* when none is given.
Array(arrayType, items) ==
    [type |-> "Array",
     arrayType |-> IF arrayType = "" THEN "inferred" ELSE arrayType,
     items |-> items]

\* --------------------------------------------------------- evaluateCurve
Interpolations == {[name |-> "step", base |-> 1],
                   [name |-> "linear", base |-> 1],
                   [name |-> "exponential", base |-> 2]}
ResultTypes == {"number", "color", "array"}
\* The element types an Array value may carry.
ArrayTypes == {"Array<number>", "Array"}

\* Stop inputs in non-decreasing order (repeats allowed), 1..MaxStops of them.
StopSets ==
    {s \in SeqsUpTo(0..MaxStopInput, MaxStops) :
        /\ Len(s) >= 1
        /\ \A i \in 1..(Len(s) - 1) : s[i] <= s[i + 1]}

NumericInputs == {Num(v) : v \in (-1)..(MaxStopInput + 1)} \cup {NaN}
CurveInputs == NumericInputs \cup {AString}

\* What the output thunk of stop i (from 0) returns: a different value at
\* every stop, of the curve's result type.
StopOutput(i, rt, at) ==
    CASE rt = "number" -> R(10 * i)
      [] rt = "color" -> [type |-> "Color", value |-> <<R(i), R(0), R(2 * i), R(1)>>]
      [] rt = "array" -> [type |-> "Array", arrayType |-> at, items |-> <<R(10 * i), R(7 * i)>>]

\* Lines 149-151: the stop whose output is returned without a search
\* (-1: none, the search runs).
EdgeIndexNoUpperCheck(inp, stops) ==
    IF Len(stops) = 1 THEN 0
    ELSE IF JsLe(inp, StopAt(stops, 0)) THEN 0
    ELSE -1
EdgeIndex(inp, stops) ==
    IF Len(stops) = 1 THEN 0
    ELSE IF JsLe(inp, StopAt(stops, 0)) THEN 0
    ELSE IF JsGe(inp, StopAt(stops, Len(stops) - 1)) THEN Len(stops) - 1
    ELSE -1

CallEvaluateCurve ==
    /\ pc = "idle"
    /\ \E stops \in StopSets, inp \in CurveInputs, interp \in Interpolations,
          rt \in ResultTypes, at \in ArrayTypes :
          /\ (rt # "array") => at = "Array"
          /\ stopInputs' = stops
          /\ input' = inp
          /\ interpolation' = interp
          /\ resultType' = rt
          /\ stopOutputs' = [k \in 1..Len(stops) |-> StopOutput(k - 1, rt, at)]
          /\ lowerIndex' = 0
          /\ upperIndex' = Len(stops) - 1
          /\ currentIndex' = 0
          /\ iters' = 0
          /\ index' = -1
          /\ IF ~AsPasses(inp, "Number")
             THEN /\ curveResult' = [kind |-> "throw", val |-> "RuntimeError"]
                  /\ pc' = "done"
             ELSE LET e == EdgeIndex(inp, stops)
                  IN  IF e >= 0
                      THEN /\ curveResult' = [kind |-> "return", val |-> stopOutputs'[e + 1]]
                           /\ pc' = "done"
                      ELSE /\ curveResult' = None
                           /\ pc' = "search"
    /\ op' = "evaluateCurve"
    /\ UNCHANGED <<coalesceVars, cf, gr>>

\* findStopLessThanOrEqualTo called on its own.
CallFindStop ==
    /\ pc = "idle"
    /\ \E stops \in StopSets, inp \in NumericInputs :
          /\ stopInputs' = stops
          /\ input' = inp
          /\ upperIndex' = Len(stops) - 1
    /\ lowerIndex' = 0
    /\ currentIndex' = 0
    /\ iters' = 0
    /\ index' = -1
    /\ pc' = "search"
    /\ op' = "findStop"
    /\ UNCHANGED <<coalesceVars, interpolation, resultType, stopOutputs, curveResult, cf, gr>>

\* Lines 155-182: what evaluateCurve returns once the search gave idx.
FinishCurve(idx) ==
    IF interpolation.name = "step"
    THEN [kind |-> "return", val |-> stopOutputs[idx + 1]]
    ELSE IF idx + 2 > Len(stopInputs)
    THEN [kind |-> "throw", val |-> "TypeError"]
    ELSE LET base == IF interpolation.name = "exponential" THEN interpolation.base ELSE 1
             t == InterpolationFactor(input[2], base, stopInputs[idx + 1], stopInputs[idx + 2])
             outputLower == stopOutputs[idx + 1]
             outputUpper == stopOutputs[idx + 2]
         IN  CASE resultType = "color" ->
                    [kind |-> "return",
                     val |-> [type |-> "Color",
                              value |-> InterpolateColor(outputLower.value, outputUpper.value, t)]]
               [] resultType = "array" ->
                    [kind |-> "return",
                     val |-> Array(outputLower.type,
                                   InterpolateArray(outputLower.items, outputUpper.items, t))]
               [] OTHER ->
                    [kind |-> "return", val |-> InterpolateNumber(outputLower, outputUpper, t)]

\* The search's `input === currentValue || input > currentValue && input < upperValue`.
SearchComplete(inp, currentValue, upperValue) ==
    \/ JsStrictEq(inp, currentValue)
    \/ (JsGt(inp, currentValue) /\ JsLt(inp, upperValue))

\* `return Math.max(currentIndex - 1, 0);`
FallThroughIndex(cur) == IF cur - 1 > 0 THEN cur - 1 ELSE 0

\* The search returns idx: to its caller, which for evaluateCurve finishes
\* the call.
SearchReturns(idx) ==
    /\ index' = idx
    /\ pc' = "done"
    /\ curveResult' = IF op = "evaluateCurve" THEN FinishCurve(idx) ELSE curveResult

\* One evaluation of the condition of findStopLessThanOrEqualTo's while
\* loop, with the iteration it starts or the return after the loop.
SearchStep ==
    /\ pc = "search"
    /\ IF lowerIndex <= upperIndex
       THEN /\ iters < MaxIters
            /\ iters' = iters + 1
            /\ LET cur == (lowerIndex + upperIndex) \div 2
                   currentValue == StopAt(stopInputs, cur)
                   upperValue == StopAt(stopInputs, cur + 1)
               IN  /\ currentIndex' = cur
                   /\ IF SearchComplete(input, currentValue, upperValue)
                      THEN /\ SearchReturns(cur)
                           /\ UNCHANGED <<lowerIndex, upperIndex>>
                      ELSE /\ UNCHANGED <<index, pc, curveResult>>
                           /\ IF JsLt(currentValue, input)
                              THEN /\ lowerIndex' = cur + 1
                                   /\ UNCHANGED upperIndex
                              ELSE IF JsGt(currentValue, input)
                              THEN /\ upperIndex' = cur - 1
                                   /\ UNCHANGED lowerIndex
                              ELSE UNCHANGED <<lowerIndex, upperIndex>>
       ELSE /\ SearchReturns(FallThroughIndex(currentIndex))
            /\ UNCHANGED <<lowerIndex, upperIndex, currentIndex, iters>>
    /\ UNCHANGED <<op, coalesceVars, input, stopInputs, interpolation, resultType,
                   stopOutputs, cf, gr>>

\* -------------------------------------------------------- createFunction
\* What a field of a parameters object holds, as far as `a || b` sees it.
FieldValues == {"absent", "falsy", "truthy"}

Absent == [kind |-> "object", expression |-> "absent", stops |-> "absent", type |-> "absent"]
\* The rawParameters handed to createFunction: null, a primitive, an array,
\* or an object with any of the fields expression, stops and type.
Parameters ==
    {[Absent EXCEPT !.kind = k] : k \in {"null", "primitive", "array"}}
    \cup [kind : {"object"}, expression : FieldValues, stops : FieldValues,
          type : {"absent", "identity", "exponential"}]

\* The propertySpec: its type, whether it has a default, and (arrays) its
\* element type.
PropertySpecs ==
    [type : {"color", "string", "number", "enum", "image"}, hasDefault : BOOLEAN, value : {"absent"}]
    \cup [type : {"array"}, hasDefault : BOOLEAN, value : {"absent", "number"}]

\* isFunctionDefinition(value): "true" or "false" (as a condition sees its
\* result), or the TypeError of reading a property of null.
IsFunctionDefinition(value) ==
    IF value.kind = "primitive" THEN "false"
    ELSE IF value.kind = "null" THEN "TypeError"
    ELSE IF value.expression = "truthy" \/ value.stops = "truthy" \/ value.type = "identity"
         THEN "true"
         ELSE "false"

\* Lines 9-19: where the expression comes from.
ExpressionOf(parameters, propertySpec) ==
    IF IsFunctionDefinition(parameters) = "false" THEN "convert.value"
    ELSE IF parameters.expression = "truthy"
         THEN IF propertySpec.hasDefault THEN "coalesce(expression, default)" ELSE "expression"
         ELSE "convert.function"

\* getExpectedType(spec)
ElementType(v) ==
    CASE v = "color" -> "Color"
      [] v \in {"string", "enum", "image"} -> "String"
      [] v = "number" -> "Number"
      [] OTHER -> "Value"
GetExpectedType(spec) ==
    IF spec.type = "array" THEN "Array<" \o ElementType(spec.value) \o ">"
    ELSE ElementType(spec.type)

\* Nodes of a compiled expression: a name, a value (literals) and arguments.
Literal(v) == [name |-> "literal", value |-> Num(v), args |-> <<>>]
Node(name, args) == [name |-> name, value |-> Undefined, args |-> args]
RECURSIVE StopArgs(_)
StopArgs(stops) ==
    IF stops = <<>> THEN <<>>
    ELSE <<Literal(Head(stops)), Literal(100 + Head(stops))>> \o StopArgs(Tail(stops))
\* A curve node: interpolation, input, then stop input / output pairs.
CurveNode(stops) == Node("curve", <<Node("interpolation", <<>>), Node("zoom", <<>>)>> \o StopArgs(stops))

\* Zoom stops in strictly ascending order, 1..MaxZoomStops of them.
ZoomStopSets ==
    {s \in SeqsUpTo(0..MaxZoomStops, MaxZoomStops) :
        /\ Len(s) >= 1
        /\ \A i \in 1..(Len(s) - 1) : s[i] < s[i + 1]}

\* The compiled expressions of a function that reads zoom: a curve, a curve
\* under coalesce, a coalesce of something else, a node with no arguments.
ZoomExpressions ==
    {CurveNode(s) : s \in ZoomStopSets}
    \cup {Node("coalesce", <<CurveNode(s), Literal(0)>>) : s \in ZoomStopSets}
    \cup {Node("coalesce", <<Literal(1), Literal(0)>>), Node("zoom", <<>>)}

ErrorKeys == {"", "[1]"}
ErrorTexts == {"Expected number", "Unknown expression"}
NoExpression == Literal(0)

\* compileExpression(expr, expectedType): success with the flags and the
\* compiled expression, or the errors found.
CompileResults ==
    [result : {"success"}, isFeatureConstant : BOOLEAN, isZoomConstant : {FALSE},
     expression : ZoomExpressions, errors : {<<>>}]
    \cup [result : {"success"}, isFeatureConstant : BOOLEAN, isZoomConstant : {TRUE},
          expression : {NoExpression}, errors : {<<>>}]
    \cup [result : {"error"}, isFeatureConstant : {TRUE}, isZoomConstant : {TRUE},
          expression : {NoExpression},
          errors : SeqsUpTo([key : ErrorKeys, error : ErrorTexts], MaxErrors) \ {<<>>}]

\* Lines 34-35: the node the stops are read from; "undefined" when the
\* outermost node is no curve and has no first argument.
CurveOf(expression) ==
    IF expression.name = "curve" THEN [found |-> TRUE, node |-> expression]
    ELSE IF Len(expression.args) >= 1 THEN [found |-> TRUE, node |-> expression.args[1]]
    ELSE [found |-> FALSE, node |-> expression]

\* Lines 40-43: `for (let i = 2; i < curveArgs.length; i += 2)`.
RECURSIVE ZoomStopsFrom(_, _)
ZoomStopsFrom(curveArgs, i) ==
    IF i >= Len(curveArgs) THEN <<>>
    ELSE <<curveArgs[i + 1].value>> \o ZoomStopsFrom(curveArgs, i + 2)
ZoomStopsEveryArg(curveArgs) == [k \in 1..(Len(curveArgs) - 2) |-> curveArgs[k + 2].value]
ZoomStops(curveArgs) == ZoomStopsFrom(curveArgs, 2)

\* Line 64: errors.map(err => `${err.key}: ${err.error}`).join(', '), as the
\* sequence of the pieces concatenated.
ErrorMessageFirstOnly(errors) == <<errors[1].key, ": ", errors[1].error>>
RECURSIVE ErrorMessage(_)
ErrorMessage(errors) ==
    IF errors = <<>> THEN <<>>
    ELSE <<Head(errors).key, ": ", Head(errors).error>>
         \o (IF Tail(errors) = <<>> THEN <<>> ELSE <<", ">> \o ErrorMessage(Tail(errors)))

NoFunction == [present |-> FALSE, isFeatureConstant |-> FALSE, isZoomConstant |-> FALSE,
               hasZoomStops |-> FALSE, zoomStops |-> <<>>, hasInterpolationT |-> FALSE]

\* Line 45: is interpolationT compiled and attached?
AttachesInterpolationT(isFeatureConstant) == ~isFeatureConstant

\* Lines 23-65: what createFunction does with the compiler's answer.
\* interpOk: whether compiling the interpolationT expression succeeds.
Outcome(compiled, interpOk) ==
    IF compiled.result = "success"
    THEN LET f == [NoFunction EXCEPT !.present = TRUE,
                                     !.isFeatureConstant = compiled.isFeatureConstant,
                                     !.isZoomConstant = compiled.isZoomConstant]
         IN  IF f.isZoomConstant
             THEN [outcome |-> "returned", f |-> f, error |-> "", message |-> <<>>]
             ELSE LET curve == CurveOf(compiled.expression)
                  IN  IF ~curve.found
                      THEN [outcome |-> "threw", f |-> NoFunction, error |-> "TypeError", message |-> <<>>]
                      ELSE LET g == [f EXCEPT !.hasZoomStops = TRUE,
                                              !.zoomStops = ZoomStops(curve.node.args)]
                           IN  IF AttachesInterpolationT(f.isFeatureConstant)
                               THEN IF interpOk
                                    THEN [outcome |-> "returned",
                                          f |-> [g EXCEPT !.hasInterpolationT = TRUE],
                                          error |-> "", message |-> <<>>]
                                    ELSE [outcome |-> "threw", f |-> NoFunction,
                                          error |-> "AssertionError", message |-> <<>>]
                               ELSE [outcome |-> "returned", f |-> g, error |-> "", message |-> <<>>]
    ELSE [outcome |-> "threw", f |-> NoFunction, error |-> "Error",
          message |-> ErrorMessage(compiled.errors)]

NotCompiled == [result |-> "none", isFeatureConstant |-> TRUE, isZoomConstant |-> TRUE,
                expression |-> NoExpression, errors |-> <<>>]

CreateFunction ==
    /\ pc = "idle"
    /\ \E parameters \in Parameters, propertySpec \in PropertySpecs :
          LET classified == IsFunctionDefinition(parameters)
              call == [parameters |-> parameters, propertySpec |-> propertySpec,
                       classified |-> classified]
          IN  IF classified = "TypeError"
              THEN cf' = [call |-> call, expr |-> "", expectedType |-> "",
                          compiled |-> NotCompiled, interpOk |-> TRUE,
                          res |-> [outcome |-> "threw", f |-> NoFunction,
                                   error |-> "TypeError", message |-> <<>>]]
              ELSE \E compiled \in CompileResults, interpOk \in BOOLEAN :
                      /\ interpOk \/ (compiled.result = "success"
                                      /\ ~compiled.isZoomConstant /\ ~compiled.isFeatureConstant)
                      /\ cf' = [call |-> call,
                                expr |-> ExpressionOf(parameters, propertySpec),
                                expectedType |-> GetExpectedType(propertySpec),
                                compiled |-> compiled, interpOk |-> interpOk,
                                res |-> Outcome(compiled, interpOk)]
    /\ pc' = "done"
    /\ op' = "createFunction"
    /\ UNCHANGED <<coalesceVars, curveVars, gr>>

\* ------------------------------------------------------------- get, has
EntryKeys == {"a", "b"}
LookupKeys == EntryKeys \cup {"c"}
\* What an entry of the wrapped plain object holds.
EntryValues == {"number", "array", "object"}
Entries == UNION {[ks -> EntryValues] : ks \in SUBSET EntryKeys}
NoEntries == [k \in {} |-> "number"]

\* The values handed to get / has as obj: null, a number, a Color, or an
\* Object value {type: 'Object', value: entries}.
ObjValues ==
    {[type |-> t, value |-> NoEntries] : t \in {"Null", "Number", "Color"}}
    \cup [type : {"Object"}, value : Entries]
\* The name argument; "" when not given.
Names == {"", "properties"}

\* Object.keys(obj) of an Object value: the fields of the tagged value.
ObjectKeys(obj) == <<"type", "value">>

\* has(obj, key, name): TRUE / FALSE, or the RuntimeError ensure throws.
Has(obj, key, name) ==
    IF obj.type = "Null"
    THEN [threw |-> TRUE, has |-> FALSE, about |-> "Cannot get property from null object"]
    ELSE IF obj.type # "Object"
    THEN [threw |-> TRUE, has |-> FALSE, about |-> "Expected to be of type Object"]
    ELSE [threw |-> FALSE, has |-> key \in DOMAIN obj.value, about |-> ""]

\* Lines 43-45: arrays and objects are wrapped, anything else is returned.
WrapEntry(val) ==
    CASE val = "array" -> "Array(inferred)"
      [] val = "object" -> "Object"
      [] OTHER -> val

NoError == [about |-> "", in |-> "", keys |-> <<>>]

Get ==
    /\ pc = "idle"
    /\ \E obj \in ObjValues, key \in LookupKeys, name \in Names :
          LET h == Has(obj, key, name)
              call == [obj |-> obj, key |-> key, name |-> name]
          IN  gr' =
                IF h.threw
                THEN [call |-> call, outcome |-> "threw", value |-> "",
                      error |-> [NoError EXCEPT !.about = h.about]]
                ELSE IF ~h.has
                THEN [call |-> call, outcome |-> "threw", value |-> "",
                      error |-> IF name # ""
                                THEN [about |-> "Property not found", in |-> name, keys |-> <<>>]
                                ELSE [about |-> "Property not found", in |-> "object with keys",
                                      keys |-> ObjectKeys(obj)]]
                ELSE [call |-> call, outcome |-> "returned",
                      value |-> WrapEntry(obj.value[key]), error |-> NoError]
    /\ pc' = "done"
    /\ op' = "get"
    /\ UNCHANGED <<coalesceVars, curveVars, cf>>

Init ==
    /\ pc = "idle"
    /\ op = "none"
    /\ thunks = <<>>
    /\ queue = <<>>
    /\ calls = <<>>
    /\ coResult = None
    /\ input = <<"undefined", 0>>
    /\ stopInputs = <<>>
    /\ interpolation = [name |-> "step", base |-> 1]
    /\ resultType = "number"
    /\ stopOutputs = <<>>
    /\ lowerIndex = 0
    /\ upperIndex = 0
    /\ currentIndex = 0
    /\ iters = 0
    /\ index = -1
    /\ curveResult = None
    /\ cf = None
    /\ gr = None

Next ==
    \/ CallCoalesce
    \/ CoalesceStep
    \/ CallEvaluateCurve
    \/ CallFindStop
    \/ SearchStep
    \/ CreateFunction
    \/ Get

Spec == Init /\ [][Next]_vars

\* ---------------------------------------------------------------- C1
\* The first thunk (in the order passed) that returns a value.
IsValue(o) == o \notin {"Null", "Fail"}
FirstValueAt(ths) ==
    IF \E k \in 1..Len(ths) : IsValue(ths[k])
    THEN CHOOSE k \in 1..Len(ths) : IsValue(ths[k]) /\ \A j \in 1..(k - 1) : ~IsValue(ths[j])
    ELSE 0

\* C1: coalesce returns the first non-null result of its thunks taken in
\* order; a failing thunk counts as null unless it is the last remaining
\* thunk, whose failure propagates; with no thunks, or when no thunk yields
\* a value and the last one does not fail, the result is null.
CoalesceFirstNonNull ==
    (op = "coalesce" /\ pc = "done") =>
        LET n == Len(thunks)
            k == FirstValueAt(thunks)
        IN  IF k # 0
            THEN coResult = [kind |-> "return", val |-> thunks[k], by |-> k]
            ELSE IF n > 0 /\ thunks[n] = "Fail"
                 THEN coResult = [kind |-> "throw", val |-> "Fail", by |-> n]
                 ELSE coResult = [kind |-> "return", val |-> "Null", by |-> 0]

\* A failing thunk was swallowed and a later thunk's value returned.
CoalesceSwallowedFailure ==
    /\ op = "coalesce" /\ pc = "done"
    /\ Len(thunks) >= 2
    /\ thunks[1] = "Fail"
    /\ coResult.kind = "return"
    /\ coResult.val # "Null"

\* ---------------------------------------------------------------- C2
\* C2: each thunk is invoked at most once, thunk k only after thunks
\* 0..k-1 were each invoked and returned null or failed, and no thunk after
\* the first one that returned a value is ever invoked.
CoalesceShortCircuits ==
    (op = "coalesce") =>
        /\ Len(calls) <= Len(thunks)
        /\ \A i \in 1..Len(calls) :
              /\ calls[i] = i
              /\ \A j \in 1..(i - 1) : ~IsValue(thunks[j])
        /\ (pc = "done" /\ FirstValueAt(thunks) # 0) => Len(calls) = FirstValueAt(thunks)

\* A value was found while thunks were still waiting; they were not invoked.
CoalesceLeftThunksUninvoked ==
    /\ op = "coalesce" /\ pc = "done"
    /\ coResult.kind = "return" /\ coResult.val # "Null"
    /\ Len(calls) < Len(thunks)
    /\ Len(calls) >= 2

\* ---------------------------------------------------------------- C3
FirstStop == Num(stopInputs[1])
LastStop == Num(stopInputs[Len(stopInputs)])
Returned(v) == pc = "done" /\ curveResult = [kind |-> "return", val |-> v]
CurveCalledWithNumber == op = "evaluateCurve" /\ TypeOf(input) = "Number"

\* C3 as stated: at or below the first stop evaluateCurve returns the first
\* stop's output, at or above the last stop the last stop's output, and
\* with one stop that stop's output, each unchanged and without a search.
CurveEdgesAsStated ==
    CurveCalledWithNumber =>
        /\ JsLe(input, FirstStop) => Returned(stopOutputs[1])
        /\ JsGe(input, LastStop) => Returned(stopOutputs[Len(stopOutputs)])
        /\ Len(stopInputs) = 1 => Returned(stopOutputs[1])

\* C3 amended: as stated, except that an input that is both at or below the
\* first stop and at or above the last one (every stop input equals it)
\* gets the first stop's output.
CurveEdges ==
    CurveCalledWithNumber =>
        /\ JsLe(input, FirstStop) => Returned(stopOutputs[1])
        /\ (JsGe(input, LastStop) /\ ~JsLe(input, FirstStop))
              => Returned(stopOutputs[Len(stopOutputs)])
        /\ Len(stopInputs) = 1 => Returned(stopOutputs[1])

\* An interpolating curve of several stops was evaluated above its last
\* stop and returned the last output.
CurveAboveRange ==
    /\ CurveCalledWithNumber
    /\ interpolation.name = "exponential"
    /\ Len(stopInputs) >= 3
    /\ stopInputs[1] < stopInputs[Len(stopInputs)]
    /\ JsGt(input, LastStop)
    /\ Returned(stopOutputs[Len(stopOutputs)])

\* ---------------------------------------------------------------- C4
\* The greatest index (from 0) whose stop input is <= the input.
GreatestStopAtOrBelow(stops, v) ==
    CHOOSE i \in 0..(Len(stops) - 1) :
        /\ stops[i + 1] <= v
        /\ \A j \in 0..(Len(stops) - 1) : stops[j + 1] <= v => j <= i

\* C4: for step interpolation and an input in range, evaluateCurve returns
\* the output of the greatest stop whose input is <= the input, repeated
\* stop inputs included.
StepReturnsGreatestStop ==
    (/\ CurveCalledWithNumber
     /\ pc = "done"
     /\ interpolation.name = "step"
     /\ JsLe(FirstStop, input) /\ JsLe(input, LastStop))
        => Returned(stopOutputs[GreatestStopAtOrBelow(stopInputs, input[2]) + 1])

\* ---------------------------------------------------------------- C8
\* C8: interpolating an array curve strictly inside its range returns an
\* Array whose items blend the two stops' items one by one and whose
\* element type is that of the lower stop's output.
ArrayInterpolationKeepsElementType ==
    (/\ CurveCalledWithNumber
     /\ pc = "done"
     /\ interpolation.name # "step"
     /\ resultType = "array"
     /\ JsLt(FirstStop, input) /\ JsLt(input, LastStop))
        => /\ curveResult.kind = "return"
           /\ curveResult.val.type = "Array"
           /\ LET lower == stopOutputs[index + 1]
                  upper == stopOutputs[index + 2]
                  t == InterpolationFactor(input[2],
                           IF interpolation.name = "exponential" THEN interpolation.base ELSE 1,
                           stopInputs[index + 1], stopInputs[index + 2])
              IN  /\ curveResult.val.items =
                        [k \in 1..Len(lower.items) |->
                            InterpolateNumber(lower.items[k], upper.items[k], t)]
                  /\ curveResult.val.arrayType = lower.arrayType

\* --------------------------------------------------------------- C10
\* C10: on stop inputs in non-decreasing order and any numeric input the
\* search ends, within as many iterations as there are stops, with an
\* index in 0..n-1; and when stopInputs[0] <= input the stop there is
\* <= input.
FindStopTerminatesInRange ==
    (op = "findStop") =>
        /\ iters <= Len(stopInputs)
        /\ pc = "done" =>
              /\ index \in 0..(Len(stopInputs) - 1)
              /\ JsLe(FirstStop, input) => JsLe(StopAt(stopInputs, index), input)

\* The same for every input that is not NaN (holds).
FindStopTerminatesOnFiniteInput ==
    (op = "findStop" /\ input # NaN) =>
        /\ iters <= Len(stopInputs)
        /\ pc = "done" =>
              /\ index \in 0..(Len(stopInputs) - 1)
              /\ JsLe(FirstStop, input) => JsLe(StopAt(stopInputs, index), input)

\* ---------------------------------------------------------------- C5
\* C5: createFunction classifies its parameters as a function definition
\* exactly when they are a non-null object with an expression field, a stops
\* field or type 'identity'; everything else, null and primitives included,
\* is classified as not one, without failing, and takes the literal branch.
ClassifiesFunctionDefinitions ==
    (op = "createFunction") =>
        LET p == cf.call.parameters
            isDefinition == /\ p.kind = "object"
                            /\ (p.expression # "absent" \/ p.stops # "absent" \/ p.type = "identity")
        IN  /\ cf.call.classified = (IF isDefinition THEN "true" ELSE "false")
            /\ ~isDefinition => cf.expr = "convert.value"

\* ---------------------------------------------------------------- C6
\* The node C6 names: the outermost node, or its first argument when the
\* outermost node is not a curve.
NamedCurveArgs(expression) ==
    IF expression.name = "curve" THEN expression.args ELSE expression.args[1].args

\* C6: a returned function carries zoomStops exactly when it is not
\* zoom-constant, and interpolationT exactly when it is neither
\* zoom-constant nor feature-constant; zoomStops holds the values at
\* argument positions 2, 4, 6, ... of the curve node, in order.
ZoomMetadata ==
    (op = "createFunction" /\ cf.res.outcome = "returned") =>
        LET f == cf.res.f
        IN  /\ f.present
            /\ f.hasZoomStops <=> ~f.isZoomConstant
            /\ f.hasInterpolationT <=> (~f.isZoomConstant /\ ~f.isFeatureConstant)
            /\ f.hasZoomStops =>
                  LET args == NamedCurveArgs(cf.compiled.expression)
                      evens == {i \in 2..(Len(args) - 1) : i % 2 = 0}
                  IN  /\ Len(f.zoomStops) = Cardinality(evens)
                      /\ \A k \in 1..Len(f.zoomStops) : f.zoomStops[k] = args[2 * k + 1].value

\* A function of zoom and feature whose curve sits under a coalesce came
\* back with both of the curve's stops and with interpolationT.
ZoomAndFeatureFunctionBuilt ==
    /\ op = "createFunction" /\ cf.res.outcome = "returned"
    /\ cf.compiled.expression.name = "coalesce"
    /\ ~cf.res.f.isFeatureConstant
    /\ cf.res.f.hasInterpolationT
    /\ Len(cf.res.f.zoomStops) = 2

\* ---------------------------------------------------------------- C7
\* C7: when the compiler reports errors, createFunction throws one error
\* whose message holds every "key: error" pair, in order, joined by ", ",
\* and returns no function.
CompileErrorsAggregated ==
    (op = "createFunction" /\ cf.compiled.result = "error") =>
        LET errors == cf.compiled.errors
            n == Len(errors)
            m == cf.res.message
        IN  /\ cf.res.outcome = "threw"
            /\ cf.res.error = "Error"
            /\ cf.res.f = NoFunction
            /\ Len(m) = 4 * n - 1
            /\ \A i \in 1..n :
                  /\ m[4 * i - 3] = errors[i].key
                  /\ m[4 * i - 2] = ": "
                  /\ m[4 * i - 1] = errors[i].error
                  /\ i < n => m[4 * i] = ", "

\* The compiler reported two errors and createFunction threw.
TwoCompileErrorsThrown ==
    /\ op = "createFunction"
    /\ cf.compiled.result = "error"
    /\ Len(cf.compiled.errors) = 2
    /\ cf.compiled.errors[1] # cf.compiled.errors[2]
    /\ cf.res.outcome = "threw"

\* ---------------------------------------------------------------- C9
\* C9: get on an Object value succeeds exactly when has is true; when the
\* key is absent and no name is given, it fails with a 'Property not found'
\* error that lists the keys of the object's entries.
GetListsAvailableKeys ==
    (op = "get" /\ gr.call.obj.type = "Object") =>
        LET entries == gr.call.obj.value
            present == gr.call.key \in DOMAIN entries
        IN  /\ (gr.outcome = "returned") <=> present
            /\ (~present /\ gr.call.name = "") =>
                  /\ gr.error.about = "Property not found"
                  /\ {gr.error.keys[i] : i \in 1..Len(gr.error.keys)} = DOMAIN entries

====
